---- MODULE Spec2Model ----
(***************************************************************************)
(* Model of the colormap control of Dioptas:                               *)
(*   widgets/plot_widgets/ColormapDialog.py  (ColormapDialog)              *)
(*   widgets/plot_widgets/utils.py           (auto_level and its modes)     *)
(*   widgets/plot_widgets/ResetLevelsButton.py  (ResetLevelsButton)        *)
(*                                                                         *)
(* Numbers.  Python floats are modelled as integers counting thousandths:  *)
(* the float 1.0 is One = 1000, 1234.567 is 1234567.  Divisions round      *)
(* down to a thousandth and the square root is the integer square root, so *)
(* the engine's results are exact to 1/1000.  NaN and infinities are not   *)
(* inputs of the model.                                                    *)
(*                                                                         *)
(* Text fields.  The range lives in two QLineEdit texts.  A text is        *)
(* modelled by what QLocale.toDouble makes of it: [ok, val].  The empty    *)
(* text of a fresh QLineEdit does not parse (ok = FALSE).                  *)
(* QLocale.toString(double) formats with format 'g' and precision 6, so    *)
(* writing a number into a field keeps Precision significant digits.       *)
(* A user edit is one step: the text the field holds when editingFinished  *)
(* fires, which the field's validator accepts.                             *)
(*                                                                         *)
(* Signals.  sigRangeChanged, sigCurrentGradientChanged,                   *)
(* sigCurrentNormalizationChanged and the button's sigModeChanged hold the *)
(* emissions delivered during the last operation, in order; op names that  *)
(* operation, its arguments and the exception it raised ("" when it        *)
(* returned).  An emission of sigModeChanged is kept with what             *)
(* currentMode() returns while it is delivered.                            *)
(*                                                                         *)
(* Specifications.  Spec runs every operation on a few inputs each;        *)
(* SpecRange and SpecGradient run the operations of one channel on more,   *)
(* SpecFields runs the range fields alone, with getRange called,           *)
(* SpecSelectors runs the gradient and the normalization together,         *)
(* SpecEngine calls auto_level alone, SpecMode runs the reset-mode button  *)
(* next to the data and the range of the dialog.                           *)
(***************************************************************************)
EXTENDS Integers, Sequences, FiniteSets

VARIABLES
    histogram,                      \* self._histogram: None or Some([counts, bins])
    autoscaleEnabled,               \* self._autoscaleButton.isEnabled()
    items,                          \* self._gradientComboBox: sequence of [text, data]
    gradientIndex,                  \* self._gradientComboBox.currentIndex() (0-based)
    normalizationIndex,             \* self._normalizationComboBox.currentIndex()
    minText,                        \* self._minEdit.text()
    maxText,                        \* self._maxEdit.text()
    modeIndex,                      \* self._autoscaleModeComboBox.currentIndex()
    sigRangeChanged,                \* emissions of the last operation: <<min, max>>
    sigCurrentGradientChanged,      \* emissions of the last operation: descriptor
    sigCurrentNormalizationChanged, \* emissions of the last operation: name
    _currentMode,                   \* ResetLevelsButton._currentMode
    checkedAction,                  \* mode of the checked action of the button's menu
    sigModeChanged,                 \* emissions of the last operation: [mode, currentMode]
    op                              \* the last operation: [name, args, raised, returned]

vars == <<histogram, autoscaleEnabled, items, gradientIndex, normalizationIndex,
          minText, maxText, modeIndex, sigRangeChanged,
          sigCurrentGradientChanged, sigCurrentNormalizationChanged,
          _currentMode, checkedAction, sigModeChanged, op>>

RECURSIVE setRange(_, _, _)
RECURSIVE _rangeChanged(_)
RECURSIVE Pow10(_)
RECURSIVE NumDigits(_)
RECURSIVE ISqrtSearch(_, _, _)
RECURSIVE SumUpTo(_, _)
RECURSIVE WeightedSum(_, _, _)
RECURSIVE WeightedSquares(_, _, _, _)
RECURSIVE CountCustom(_)

\* Optional values: None, or Some(v)
None == [none |-> TRUE]

Some(v) == [none |-> FALSE, value |-> v]

(***************************************************************************)
(* Numbers and their text form                                             *)
(***************************************************************************)

\* The float 1.0 (the fallback minimum of getRange, the validators' bottom).
One == 1000

\* Significant digits QLocale.toString(double) keeps (format 'g').
Precision == 6

Abs(v) == IF v < 0 THEN -v ELSE v

Pow10(n) == IF n = 0 THEN 1 ELSE 10 * Pow10(n - 1)

\* Number of decimal digits of v >= 0 (1 for 0).
NumDigits(v) == IF v < 10 THEN 1 ELSE 1 + NumDigits(v \div 10)

\* v rounded to Precision significant digits, half away from zero.
RoundSignificant(v) ==
    LET a == Abs(v)
        n == NumDigits(a)
    IN  IF n <= Precision
        THEN v
        ELSE LET p == Pow10(n - Precision)
                 r == ((a + p \div 2) \div p) * p
             IN  IF v < 0 THEN -r ELSE r

\* The text of a QLineEdit that was never written.
EmptyText == [ok |-> FALSE, val |-> 0]

\* validator().locale().toString(float(v)): the text written into a field.
toString(v) == [ok |-> TRUE, val |-> RoundSignificant(v)]

\* validator().locale().toDouble(text): (value, validated).
toDouble(text) == <<text.val, text.ok>>

\* QDoubleValidator(1, inf, -1): the texts a user edit can finish with.
Acceptable(text) == text.ok /\ text.val >= One

(***************************************************************************)
(* Range: getRange, setRange, _rangeChanged                                *)
(* They work on the record [minText, maxText, emitted] of the two fields   *)
(* and the sigRangeChanged emissions made so far in the operation.          *)
(***************************************************************************)

\* getRange falling back to (1, 1) unless both fields parse
GetRangeBothOrDefault(st) ==
    LET lo == toDouble(st.minText)
        hi == toDouble(st.maxText)
    IN  IF lo[2] /\ hi[2] THEN <<lo[1], hi[1]>> ELSE <<One, One>>

\* getRange falling back to 0 for a lower field that does not parse
GetRangeFallbackZero(st) ==
    LET lo == toDouble(st.minText)
        minimum == IF lo[2] THEN lo[1] ELSE 0
        hi == toDouble(st.maxText)
        maximum == IF hi[2] THEN hi[1] ELSE minimum
    IN  <<minimum, maximum>>

getRange(st) ==
    LET lo == toDouble(st.minText)
        minimum == IF lo[2] THEN lo[1] ELSE One
        hi == toDouble(st.maxText)
        maximum == IF hi[2] THEN hi[1] ELSE minimum
    IN  <<minimum, maximum>>

\* _rangeChanged without its swap branch.
RangeChangedNoSwap(st) ==
    [st EXCEPT !.emitted = Append(@, getRange(st))]

_rangeChanged(st) ==
    LET r == getRange(st)
    IN  IF r[2] < r[1]
        THEN setRange(st, r[2], r[1])
        ELSE [st EXCEPT !.emitted = Append(@, r)]

\* setRange comparing with the stored range before ordering its arguments
SetRangeCompareFirst(st, minimum, maximum) ==
    LET lo == IF maximum < minimum THEN maximum ELSE minimum
        hi == IF maximum < minimum THEN minimum ELSE maximum
    IN  IF <<minimum, maximum>> = getRange(st)
        THEN st
        ELSE _rangeChanged([st EXCEPT !.minText = toString(lo),
                                      !.maxText = toString(hi)])

\* setRange writing and notifying whatever the stored range is
SetRangeNoDedup(st, minimum, maximum) ==
    LET lo == IF maximum < minimum THEN maximum ELSE minimum
        hi == IF maximum < minimum THEN minimum ELSE maximum
    IN  RangeChangedNoSwap([st EXCEPT !.minText = toString(lo),
                                      !.maxText = toString(hi)])

setRange(st, minimum, maximum) ==
    LET lo == IF maximum < minimum THEN maximum ELSE minimum
        hi == IF maximum < minimum THEN minimum ELSE maximum
    IN  IF <<lo, hi>> = getRange(st)
        THEN st
        ELSE _rangeChanged([st EXCEPT !.minText = toString(lo),
                                      !.maxText = toString(hi)])

\* The range state at the start of an operation.
RangeState == [minText |-> minText, maxText |-> maxText, emitted |-> <<>>]

(***************************************************************************)
(* Auto-level engine (utils.py).  hist_x: bin left edges, hist_y: counts.  *)
(* A result is [raised, minimum, maximum]; raised names the exception the  *)
(* call ends with, "" when it returns (minimum, maximum).                  *)
(***************************************************************************)

\* The saturation threshold 0.996, in thousandths.
SaturationPermille == 996

Returns(minimum, maximum) == [raised |-> "", minimum |-> minimum, maximum |-> maximum]

Raises(exception) == [raised |-> exception, minimum |-> 0, maximum |-> 0]

Max2(a, b) == IF a < b THEN b ELSE a

Min2(a, b) == IF a < b THEN a ELSE b

\* sum of s[1..i]: np.cumsum(s)[i-1], and np.sum(s) for i = Len(s)
SumUpTo(s, i) == IF i = 0 THEN 0 ELSE SumUpTo(s, i - 1) + s[i]

\* sum of w[k] * x[k] for k in 1..i
WeightedSum(x, w, i) == IF i = 0 THEN 0 ELSE WeightedSum(x, w, i - 1) + w[i] * x[i]

\* sum of w[k] * (x[k] - mean)^2 for k in 1..i
WeightedSquares(x, w, mean, i) ==
    IF i = 0 THEN 0
    ELSE WeightedSquares(x, w, mean, i - 1) + w[i] * (x[i] - mean) * (x[i] - mean)

\* largest r in lo..hi with r * r <= v
ISqrtSearch(lo, hi, v) ==
    IF lo >= hi THEN lo
    ELSE LET mid == (lo + hi + 1) \div 2
         IN  IF mid * mid <= v THEN ISqrtSearch(mid, hi, v)
                               ELSE ISqrtSearch(lo, mid - 1, v)

\* np.sqrt, rounded down
Sqrt(v) == ISqrtSearch(0, Min2(v, 46340), v)

\* (mean, std); np.average raises ZeroDivisionError when the weights sum to zero
weighted_average_std(a, weights) ==
    LET sum_of_weights == SumUpTo(weights, Len(weights))
        mean == WeightedSum(a, weights, Len(a)) \div sum_of_weights
        variance == WeightedSquares(a, weights, mean, Len(a)) \div sum_of_weights
    IN  IF sum_of_weights = 0
        THEN Raises("ZeroDivisionError")
        ELSE Returns(mean, Sqrt(variance))

\* the default mode falling back to the largest edge itself
DefaultAutoLevelWholeEdge(hist_x, hist_y) ==
    LET n == Len(hist_x)
        hist_y_sum == SumUpTo(hist_y, Len(hist_y))
        max_ind == {i \in 1..Len(hist_y) :
                       1000 * SumUpTo(hist_y, i) < SaturationPermille * hist_y_sum}
        mean2 == IF n = 1 THEN hist_x[1] ELSE (hist_x[1] + hist_x[2]) \div 2
        last == CHOOSE i \in max_ind : \A j \in max_ind : j <= i
        max_level == IF max_ind # {} THEN hist_x[last] ELSE hist_x[n]
        positive == {hist_x[i] : i \in {k \in 1..n : hist_x[k] > 0}}
        smallest == CHOOSE v \in positive : \A u \in positive : v <= u
        min_level == IF positive # {} THEN Max2(mean2, smallest) ELSE mean2
    IN  IF n = 0
        THEN Raises("ValueError")
        ELSE Returns(min_level, max_level)

_default_auto_level(hist_x, hist_y) ==
    LET n == Len(hist_x)
        hist_y_sum == SumUpTo(hist_y, Len(hist_y))
        max_ind == {i \in 1..Len(hist_y) :
                       1000 * SumUpTo(hist_y, i) < SaturationPermille * hist_y_sum}
        mean2 == IF n = 1 THEN hist_x[1] ELSE (hist_x[1] + hist_x[2]) \div 2
        last == CHOOSE i \in max_ind : \A j \in max_ind : j <= i
        largest == CHOOSE v \in {hist_x[i] : i \in 1..n} :
                       \A i \in 1..n : hist_x[i] <= v
        max_level == IF max_ind # {} THEN hist_x[last] ELSE largest \div 2
        positive == {hist_x[i] : i \in {k \in 1..n : hist_x[k] > 0}}
        smallest == CHOOSE v \in positive : \A u \in positive : v <= u
        min_level == IF positive # {} THEN Max2(mean2, smallest) ELSE mean2
    IN  IF n = 0
        THEN Raises("ValueError")       \* np.max of an empty array
        ELSE Returns(min_level, max_level)

\* the 'minmax' mode ending at the last edge
MinmaxLastEdge(hist_x, hist_y) ==
    LET n == Len(hist_x)
    IN  IF n < 2
        THEN Raises("IndexError")
        ELSE Returns(hist_x[1], hist_x[n])

_minmax_auto_level(hist_x, hist_y) ==
    LET n == Len(hist_x)
        bin_size == hist_x[n] - hist_x[n - 1]
    IN  IF n < 2
        THEN Raises("IndexError")       \* hist_x[-2], or hist_x[-1] when empty
        ELSE Returns(hist_x[1], hist_x[n] + bin_size)

\* the 'mean3std' mode without the clipping to the 'minmax' interval
Mean3stdUnclipped(hist_x, hist_y) ==
    LET ms == weighted_average_std(hist_x, hist_y)
        mm == _minmax_auto_level(hist_x, hist_y)
    IN  IF ms.raised # "" THEN ms
        ELSE IF mm.raised # "" THEN mm
        ELSE Returns(ms.minimum - 3 * ms.maximum, ms.minimum + 3 * ms.maximum)

_mean3std_auto_level(hist_x, hist_y) ==
    LET ms == weighted_average_std(hist_x, hist_y)
        mean == ms.minimum
        std == ms.maximum
        mm == _minmax_auto_level(hist_x, hist_y)
    IN  IF ms.raised # "" THEN ms
        ELSE IF mm.raised # "" THEN mm
        ELSE Returns(Max2(mean - 3 * std, mm.minimum), Min2(mean + 3 * std, mm.maximum))

\* auto_level whose unknown modes fall back to the default mode
AutoLevelFallback(hist_x, hist_y, mode) ==
    IF mode = "minmax" THEN _minmax_auto_level(hist_x, hist_y)
    ELSE IF mode = "mean3std" THEN _mean3std_auto_level(hist_x, hist_y)
    ELSE _default_auto_level(hist_x, hist_y)

auto_level(hist_x, hist_y, mode) ==
    IF mode = "default" THEN _default_auto_level(hist_x, hist_y)
    ELSE IF mode = "minmax" THEN _minmax_auto_level(hist_x, hist_y)
    ELSE IF mode = "mean3std" THEN _mean3std_auto_level(hist_x, hist_y)
    ELSE Raises("ValueError")

(***************************************************************************)
(* Gradient combo box                                                      *)
(***************************************************************************)

\* pyqtgraph.graphicsItems.GradientEditorItem.Gradients, in its order: three
\* of its entries, ticks as <<position in thousandths, colour>>.
Gradients == <<
    [name |-> "thermal",
     gradient |-> [mode |-> "rgb",
                   ticks |-> << <<333, "red">>, <<666, "yellow">>,
                                <<1000, "white">>, <<0, "black">> >>]],
    [name |-> "spectrum",
     gradient |-> [mode |-> "hsv",
                   ticks |-> << <<1000, "magenta">>, <<0, "red">> >>]],
    [name |-> "grey",
     gradient |-> [mode |-> "rgb",
                   ticks |-> << <<0, "black">>, <<1000, "white">> >>]] >>

\* str.capitalize() on the preset names
capitalize(name) ==
    CASE name = "thermal" -> "Thermal"
      [] name = "spectrum" -> "Spectrum"
      [] name = "grey" -> "Grey"
      [] OTHER -> name

\* number of 'Custom' items of a combo box content
CountCustom(content) ==
    IF content = <<>> THEN 0
    ELSE (IF Head(content).text = "Custom" THEN 1 ELSE 0) + CountCustom(Tail(content))

\* QComboBox.findText: 0-based index of the first item with that text, -1 if none
findText(content, text) ==
    LET hits == {i \in 1..Len(content) : content[i].text = text}
    IN  IF hits = {} THEN -1
        ELSE (CHOOSE i \in hits : \A j \in hits : i <= j) - 1

\* QComboBox.itemData(index, UserRole)
itemData(content, index) == content[index + 1].data

\* _gradientComboBoxCurrentIndexChanged: the emissions it makes
_gradientComboBoxCurrentIndexChanged(content, index) ==
    IF index < 0 THEN <<>> ELSE <<itemData(content, index)>>

\* QComboBox.setCurrentIndex with the handler connected: [items, index, emitted]
setCurrentIndex(content, current, index) ==
    IF index = current
    THEN [items |-> content, index |-> current, emitted |-> <<>>]
    ELSE [items |-> content, index |-> index,
          emitted |-> _gradientComboBoxCurrentIndexChanged(content, index)]

\* the first preset equal to the descriptor in mode and ticks, 0 if none
MatchingPreset(gradient) ==
    LET hits == {i \in 1..Len(Gradients) :
                    /\ gradient.mode = Gradients[i].gradient.mode
                    /\ gradient.ticks = Gradients[i].gradient.ticks}
    IN  IF hits = {} THEN 0 ELSE CHOOSE i \in hits : \A j \in hits : i <= j

\* setCurrentGradient that compares the modes only
SetCurrentGradientModeOnly(content, current, gradient) ==
    LET hits == {i \in 1..Len(Gradients) : gradient.mode = Gradients[i].gradient.mode}
        first == CHOOSE i \in hits : \A j \in hits : i <= j
    IN  IF hits # {}
        THEN setCurrentIndex(content, current,
                             findText(content, capitalize(Gradients[first].name)))
        ELSE setCurrentIndex(<<[text |-> "Custom", data |-> gradient]>> \o content,
                             current + 1, 0)

\* setCurrentGradient that inserts the Custom item without blocking the signals
SetCurrentGradientUnblocked(content, current, gradient) ==
    LET inserted == <<[text |-> "Custom", data |-> gradient]>> \o content
        shifted == _gradientComboBoxCurrentIndexChanged(inserted, current + 1)
        selected == setCurrentIndex(inserted, current + 1, 0)
    IN  IF MatchingPreset(gradient) # 0
        THEN setCurrentIndex(content, current,
                 findText(content, capitalize(Gradients[MatchingPreset(gradient)].name)))
        ELSE [selected EXCEPT !.emitted = shifted \o @]

\* setCurrentGradient that adds a Custom item for every descriptor
SetCurrentGradientAlwaysCustom(content, current, gradient) ==
    setCurrentIndex(<<[text |-> "Custom", data |-> gradient]>> \o content, current + 1, 0)

\* setCurrentGradient: [items, index, emitted].  insertItem(0, ...) moves the
\* current index up by one; its currentIndexChanged is blocked.
setCurrentGradient(content, current, gradient) ==
    LET preset == MatchingPreset(gradient)
        found == findText(content, capitalize(Gradients[preset].name))
        inserted == <<[text |-> "Custom", data |-> gradient]>> \o content
    IN  IF preset # 0
        THEN (IF found = -1
              THEN [items |-> content, index |-> current, emitted |-> <<>>]
              ELSE setCurrentIndex(content, current, found))
        ELSE setCurrentIndex(inserted, current + 1, 0)

\* getCurrentGradient: currentData()
getCurrentGradient == itemData(items, gradientIndex)

(***************************************************************************)
(* Normalization combo box and reset-mode combo box                        *)
(***************************************************************************)

\* the data of the items of _normalizationComboBox, in order
Normalizations == <<"linear", "log", "sqrt", "arcsinh">>

\* the data of the items of _autoscaleModeComboBox, in order
AutoscaleModes == <<"default", "minmax", "mean3std">>

\* QComboBox.findData on a sequence of item data
findData(data, value) ==
    LET hits == {i \in 1..Len(data) : data[i] = value}
    IN  IF hits = {} THEN -1 ELSE (CHOOSE i \in hits : TRUE) - 1

getCurrentNormalization == Normalizations[normalizationIndex + 1]

\* _autoscaleModeComboBox.currentData()
currentMode == AutoscaleModes[modeIndex + 1]

(***************************************************************************)
(* ResetLevelsButton: a menu of checkable actions in an exclusive group.   *)
(* Its state is the record [currentMode, emitted].                         *)
(***************************************************************************)

\* the modes of the menu actions, in the order __init__ creates them
MenuModes == <<"default", "minmax", "mean3std">>

\* _menuActionToggled emitting before it stores the mode
MenuActionToggledEmitFirst(st, mode, checked) ==
    IF checked
    THEN [currentMode |-> mode,
          emitted |-> Append(st.emitted, [mode |-> mode, currentMode |-> st.currentMode])]
    ELSE st

\* the slot of every action's toggled signal; slots of sigModeChanged run
\* inside emit and see the mode already stored
_menuActionToggled(st, mode, checked) ==
    IF checked
    THEN [currentMode |-> mode,
          emitted |-> Append(st.emitted, [mode |-> mode, currentMode |-> mode])]
    ELSE st

\* QAction.trigger() on the action of mode: the checked action of an
\* exclusive group stays checked and nothing is toggled; any other action
\* gets checked, the group unchecks the one checked before (checked is None
\* when there is none), and each of the two emits toggled
trigger(st, checked, mode) ==
    IF ~checked.none /\ checked.value = mode
    THEN st
    ELSE _menuActionToggled(
             IF checked.none THEN st ELSE _menuActionToggled(st, checked.value, FALSE),
             mode, TRUE)

\* the button at the end of ResetLevelsButton.__init__: the 'Default' action
\* was triggered once connected
ButtonConstructed == trigger([currentMode |-> "default", emitted |-> <<>>], None, MenuModes[1])

(***************************************************************************)
(* Inputs                                                                  *)
(***************************************************************************)

\* most 'Custom' items the combo box is let to hold
MaxCustom == 2

\* arguments of setRange, in thousandths
RangeInputs == {0, 1000, 3000, 1234567}

\* texts a user leaves in a range field: empty, 0.5, 2, 5, 1234.567
EditInputs == {EmptyText} \cup {[ok |-> TRUE, val |-> v] : v \in {500, 2000, 5000, 1234567}}

\* histograms handed to setDataHistogram and auto_level
HistogramInputs == {
    [counts |-> <<>>, bins |-> <<>>],
    [counts |-> <<5>>, bins |-> <<2000>>],
    [counts |-> <<0, 0>>, bins |-> <<2000, 4000>>],
    [counts |-> <<5, 0>>, bins |-> <<2000, 4000>>],
    [counts |-> <<3, 2, 1, 1>>, bins |-> <<0, 2000, 4000, 6000>>],
    [counts |-> <<1, 8, 1>>, bins |-> <<0, 3000, 6000>>],
    [counts |-> <<1, 1>>, bins |-> <<1234567, 1234569>>] }

CustomGradient == [mode |-> "rgb", ticks |-> << <<0, "black">>, <<1000, "black">> >>]

CustomGradient2 == [mode |-> "rgb", ticks |-> << <<0, "white">>, <<1000, "white">> >>]

\* the ticks of 'grey' with another mode
GreyHsv == [mode |-> "hsv", ticks |-> << <<0, "black">>, <<1000, "white">> >>]

GradientInputs ==
    {Gradients[i].gradient : i \in 1..Len(Gradients)}
        \cup {CustomGradient, CustomGradient2, GreyHsv}

\* modes auto_level does not know
UnsupportedModes == {"bogus", ""}

\* the inputs of the specification of the whole dialog
SmallRangeInputs == {1000, 3000}

SmallEditInputs == {[ok |-> TRUE, val |-> 2000]}

SmallHistogramInputs == {[counts |-> <<3, 2, 1, 1>>, bins |-> <<0, 2000, 4000, 6000>>]}

SmallGradientInputs == {Gradients[3].gradient, CustomGradient}

SmallNormalizationInputs == {"log", "bogus"}

\* arguments of setCurrentNormalization: every item data, the text of an
\* item, and strings that are neither
NormalizationInputs ==
    {Normalizations[i] : i \in 1..Len(Normalizations)} \cup {"Linear", "bogus", ""}

\* most bin edges of a histogram handed to the engine alone
MaxEdges == 4

\* first edges, bin widths and counts of those histograms
EngineStarts == {-4000, 0, 2000}

EngineSteps == {1000, 3000}

EngineCounts == {0, 1, 8}

\* histograms with evenly spaced, strictly increasing edges and as many
\* counts as edges, from no bin at all up to MaxEdges
EngineHistograms ==
    UNION {{[counts |-> counts, bins |-> [i \in 1..n |-> start + (i - 1) * step]] :
               counts \in [1..n -> EngineCounts]} :
           <<n, start, step>> \in (0..MaxEdges) \X EngineStarts \X EngineSteps}

(***************************************************************************)
(* State after ColormapDialog.__init__ and ResetLevelsButton.__init__      *)
(***************************************************************************)

Init ==
    /\ histogram = None
    /\ autoscaleEnabled = FALSE
    /\ items = [i \in 1..Len(Gradients) |->
                   [text |-> capitalize(Gradients[i].name), data |-> Gradients[i].gradient]]
    /\ gradientIndex = 0
    /\ normalizationIndex = 0
    /\ minText = EmptyText
    /\ maxText = EmptyText
    /\ modeIndex = 0
    /\ sigRangeChanged = <<>>
    /\ sigCurrentGradientChanged = <<>>
    /\ sigCurrentNormalizationChanged = <<>>
    /\ _currentMode = ButtonConstructed.currentMode
    /\ checkedAction = MenuModes[1]
    /\ sigModeChanged = ButtonConstructed.emitted
    /\ op = [name |-> "__init__", args |-> <<>>, raised |-> "", returned |-> <<>>]

(***************************************************************************)
(* Operations                                                              *)
(***************************************************************************)

\* an operation of the dialog or a call of the engine: the button is not
\* involved
Called(name, args, raised, returned) ==
    /\ op' = [name |-> name, args |-> args, raised |-> raised, returned |-> returned]
    /\ sigModeChanged' = <<>>
    /\ UNCHANGED <<_currentMode, checkedAction>>

NoGradientSignal == sigCurrentGradientChanged' = <<>>

NoNormalizationSignal == sigCurrentNormalizationChanged' = <<>>

NoRangeSignal == sigRangeChanged' = <<>>

\* the range fields and sigRangeChanged after a range operation
RangeBecomes(st) ==
    /\ minText' = st.minText
    /\ maxText' = st.maxText
    /\ sigRangeChanged' = st.emitted

\* setDataHistogram computing the range anew from the histogram it is given
SetDataHistogramRescales(counts, bins) ==
    LET level == auto_level(bins.value, counts.value, currentMode)
        range == IF counts.none \/ bins.none \/ level.raised # ""
                 THEN RangeState
                 ELSE setRange(RangeState, level.minimum, level.maximum)
    IN  /\ histogram' = IF counts.none \/ bins.none
                        THEN None ELSE Some([counts |-> counts.value, bins |-> bins.value])
        /\ autoscaleEnabled' = ~histogram'.none
        /\ RangeBecomes(range)
        /\ Called("setDataHistogram", <<counts, bins>>, "", <<>>)
        /\ NoGradientSignal /\ NoNormalizationSignal
        /\ UNCHANGED <<items, gradientIndex, normalizationIndex, modeIndex>>

setDataHistogram(counts, bins) ==
    /\ histogram' = IF counts.none \/ bins.none
                    THEN None ELSE Some([counts |-> counts.value, bins |-> bins.value])
    /\ autoscaleEnabled' = ~histogram'.none
    /\ Called("setDataHistogram", <<counts, bins>>, "", <<>>)
    /\ NoRangeSignal /\ NoGradientSignal /\ NoNormalizationSignal
    /\ UNCHANGED <<items, gradientIndex, normalizationIndex, minText, maxText, modeIndex>>

\* setCurrentGradient setting the range to the span of the gradient's ticks
SetCurrentGradientSetsRange(gradient) ==
    LET r == setCurrentGradient(items, gradientIndex, gradient)
        ticks == gradient.ticks
    IN  /\ CountCustom(r.items) <= MaxCustom
        /\ items' = r.items
        /\ gradientIndex' = r.index
        /\ sigCurrentGradientChanged' = r.emitted
        /\ RangeBecomes(setRange(RangeState, ticks[1][1], ticks[Len(ticks)][1]))
        /\ Called("setCurrentGradient", <<gradient>>, "", <<>>)
        /\ NoNormalizationSignal
        /\ UNCHANGED <<histogram, autoscaleEnabled, normalizationIndex, modeIndex>>

\* a call of setCurrentGradient(gradient)
SetCurrentGradient(gradient) ==
    LET r == setCurrentGradient(items, gradientIndex, gradient)
    IN  /\ CountCustom(r.items) <= MaxCustom
        /\ items' = r.items
        /\ gradientIndex' = r.index
        /\ sigCurrentGradientChanged' = r.emitted
        /\ Called("setCurrentGradient", <<gradient>>, "", <<>>)
        /\ NoRangeSignal /\ NoNormalizationSignal
        /\ UNCHANGED <<histogram, autoscaleEnabled, normalizationIndex,
                       minText, maxText, modeIndex>>

\* the user picks item index of the gradient combo box
GradientActivated(index) ==
    LET r == setCurrentIndex(items, gradientIndex, index)
    IN  /\ index # gradientIndex
        /\ gradientIndex' = r.index
        /\ sigCurrentGradientChanged' = r.emitted
        /\ Called("gradientActivated", <<index>>, "", <<>>)
        /\ NoRangeSignal /\ NoNormalizationSignal
        /\ UNCHANGED <<histogram, autoscaleEnabled, items, normalizationIndex,
                       minText, maxText, modeIndex>>

\* _normalizationComboBoxCurrentIndexChanged: the emissions it makes
_normalizationComboBoxCurrentIndexChanged(index) ==
    IF index < 0 THEN <<>> ELSE <<Normalizations[index + 1]>>

\* setCurrentNormalization selecting 'linear' for a value it does not find
SetCurrentNormalizationFallback(normalization) ==
    LET found == findData(Normalizations, normalization)
        index == IF found < 0 THEN 0 ELSE found
    IN  /\ Called("setCurrentNormalization", <<normalization>>, "", <<>>)
        /\ normalizationIndex' = index
        /\ sigCurrentNormalizationChanged' =
               IF index = normalizationIndex THEN <<>>
               ELSE _normalizationComboBoxCurrentIndexChanged(index)
        /\ NoRangeSignal /\ NoGradientSignal
        /\ UNCHANGED <<histogram, autoscaleEnabled, items, gradientIndex,
                       minText, maxText, modeIndex>>

setCurrentNormalization(normalization) ==
    LET index == findData(Normalizations, normalization)
    IN  /\ IF index < 0
           THEN /\ Called("setCurrentNormalization", <<normalization>>, "ValueError", <<>>)
                /\ UNCHANGED normalizationIndex
                /\ NoNormalizationSignal
           ELSE /\ Called("setCurrentNormalization", <<normalization>>, "", <<>>)
                /\ normalizationIndex' = index
                /\ sigCurrentNormalizationChanged' =
                       IF index = normalizationIndex THEN <<>>
                       ELSE _normalizationComboBoxCurrentIndexChanged(index)
        /\ NoRangeSignal /\ NoGradientSignal
        /\ UNCHANGED <<histogram, autoscaleEnabled, items, gradientIndex,
                       minText, maxText, modeIndex>>

\* the user picks item index of the normalization combo box
NormalizationActivated(index) ==
    /\ index # normalizationIndex
    /\ normalizationIndex' = index
    /\ sigCurrentNormalizationChanged' = _normalizationComboBoxCurrentIndexChanged(index)
    /\ Called("normalizationActivated", <<index>>, "", <<>>)
    /\ NoRangeSignal /\ NoGradientSignal
    /\ UNCHANGED <<histogram, autoscaleEnabled, items, gradientIndex,
                   minText, maxText, modeIndex>>

\* a call of setRange(minimum, maximum)
SetRange(minimum, maximum) ==
    /\ RangeBecomes(setRange(RangeState, minimum, maximum))
    /\ Called("setRange", <<minimum, maximum>>, "", <<>>)
    /\ NoGradientSignal /\ NoNormalizationSignal
    /\ UNCHANGED <<histogram, autoscaleEnabled, items, gradientIndex,
                   normalizationIndex, modeIndex>>

\* the user finishes an edit of the min field with text: editingFinished
\* a finished edit of the min field that notifies only a range that differs
\* from the one before the edit
MinEditingFinishedDeduped(text) ==
    LET edited == [RangeState EXCEPT !.minText = text]
    IN  /\ Acceptable(text)
        /\ RangeBecomes(IF getRange(edited) = getRange(RangeState)
                        THEN edited ELSE _rangeChanged(edited))
        /\ Called("minEditingFinished", <<text>>, "", <<>>)
        /\ NoGradientSignal /\ NoNormalizationSignal
        /\ UNCHANGED <<histogram, autoscaleEnabled, items, gradientIndex,
                       normalizationIndex, modeIndex>>

MinEditingFinished(text) ==
    /\ Acceptable(text)
    /\ RangeBecomes(_rangeChanged([RangeState EXCEPT !.minText = text]))
    /\ Called("minEditingFinished", <<text>>, "", <<>>)
    /\ NoGradientSignal /\ NoNormalizationSignal
    /\ UNCHANGED <<histogram, autoscaleEnabled, items, gradientIndex,
                   normalizationIndex, modeIndex>>

\* the user finishes an edit of the max field with text: editingFinished
MaxEditingFinished(text) ==
    /\ Acceptable(text)
    /\ RangeBecomes(_rangeChanged([RangeState EXCEPT !.maxText = text]))
    /\ Called("maxEditingFinished", <<text>>, "", <<>>)
    /\ NoGradientSignal /\ NoNormalizationSignal
    /\ UNCHANGED <<histogram, autoscaleEnabled, items, gradientIndex,
                   normalizationIndex, modeIndex>>

\* _autoscaleRequested that does not look whether a histogram is set
AutoscaleRequestedUnchecked(hist, mode, st) ==
    IF hist.none
    THEN [raised |-> "", range |-> setRange(st, 0, 0)]
    ELSE LET level == auto_level(hist.value.bins, hist.value.counts, mode)
         IN  IF level.raised # ""
             THEN [raised |-> level.raised, range |-> st]
             ELSE [raised |-> "", range |-> setRange(st, level.minimum, level.maximum)]

\* _autoscaleRequested on histogram hist, mode and range state st:
\* [raised, range].  An exception of auto_level leaves the slot before setRange.
_autoscaleRequested(hist, mode, st) ==
    IF hist.none
    THEN [raised |-> "", range |-> st]
    ELSE LET level == auto_level(hist.value.bins, hist.value.counts, mode)
         IN  IF level.raised # ""
             THEN [raised |-> level.raised, range |-> st]
             ELSE [raised |-> "", range |-> setRange(st, level.minimum, level.maximum)]

\* the Reset button is clicked; a disabled button does not emit clicked
AutoscaleButtonClicked ==
    LET r == _autoscaleRequested(histogram, currentMode, RangeState)
    IN  /\ autoscaleEnabled
        /\ RangeBecomes(r.range)
        /\ Called("autoscaleButtonClicked", <<>>, r.raised, <<>>)
        /\ NoGradientSignal /\ NoNormalizationSignal
        /\ UNCHANGED <<histogram, autoscaleEnabled, items, gradientIndex,
                       normalizationIndex, modeIndex>>

\* the user picks item index of the reset-mode combo box: currentIndexChanged
AutoscaleModeActivated(index) ==
    LET r == _autoscaleRequested(histogram, AutoscaleModes[index + 1], RangeState)
    IN  /\ index # modeIndex
        /\ modeIndex' = index
        /\ RangeBecomes(r.range)
        /\ Called("autoscaleModeActivated", <<index>>, r.raised, <<>>)
        /\ NoGradientSignal /\ NoNormalizationSignal
        /\ UNCHANGED <<histogram, autoscaleEnabled, items, gradientIndex,
                       normalizationIndex>>

\* a call of getRange()
GetRangeCalled ==
    /\ Called("getRange", <<>>, "", getRange(RangeState))
    /\ NoRangeSignal /\ NoGradientSignal /\ NoNormalizationSignal
    /\ UNCHANGED <<histogram, autoscaleEnabled, items, gradientIndex,
                   normalizationIndex, minText, maxText, modeIndex>>

\* the user picks the action of mode in the menu of the ResetLevelsButton
MenuActionTriggered(mode) ==
    LET st == trigger([currentMode |-> _currentMode, emitted |-> <<>>],
                      Some(checkedAction), mode)
    IN  /\ _currentMode' = st.currentMode
        /\ checkedAction' = mode
        /\ sigModeChanged' = st.emitted
        /\ op' = [name |-> "menuActionTriggered", args |-> <<mode>>,
                  raised |-> "", returned |-> <<>>]
        /\ NoRangeSignal /\ NoGradientSignal /\ NoNormalizationSignal
        /\ UNCHANGED <<histogram, autoscaleEnabled, items, gradientIndex,
                       normalizationIndex, minText, maxText, modeIndex>>

\* a direct call of utils.auto_level(hist.bins, hist.counts, mode)
AutoLevelCalled(hist, mode) ==
    LET level == auto_level(hist.bins, hist.counts, mode)
    IN  /\ Called("auto_level", <<hist, mode>>, level.raised,
                  IF level.raised = "" THEN <<level.minimum, level.maximum>> ELSE <<>>)
        /\ NoRangeSignal /\ NoGradientSignal /\ NoNormalizationSignal
        /\ UNCHANGED <<histogram, autoscaleEnabled, items, gradientIndex,
                       normalizationIndex, minText, maxText, modeIndex>>

\* The whole dialog, every operation on a few inputs each.
Next ==
    \/ \E h \in SmallHistogramInputs, counts, bins \in BOOLEAN :
           setDataHistogram(IF counts THEN Some(h.counts) ELSE None,
                            IF bins THEN Some(h.bins) ELSE None)
    \/ \E gradient \in SmallGradientInputs : SetCurrentGradient(gradient)
    \/ \E index \in 0..(Len(items) - 1) : GradientActivated(index)
    \/ \E normalization \in SmallNormalizationInputs : setCurrentNormalization(normalization)
    \/ \E index \in 0..(Len(Normalizations) - 1) : NormalizationActivated(index)
    \/ \E minimum, maximum \in SmallRangeInputs : SetRange(minimum, maximum)
    \/ \E text \in SmallEditInputs : MinEditingFinished(text)
    \/ \E text \in SmallEditInputs : MaxEditingFinished(text)
    \/ AutoscaleButtonClicked
    \/ \E index \in 0..(Len(AutoscaleModes) - 1) : AutoscaleModeActivated(index)
    \/ \E h \in SmallHistogramInputs : AutoLevelCalled(h, "bogus")

Spec == Init /\ [][Next]_vars

\* The range channel: data histogram, range fields, reset button and reset
\* mode, and the engine called directly.
NextRange ==
    \/ \E h \in HistogramInputs, counts, bins \in BOOLEAN :
           setDataHistogram(IF counts THEN Some(h.counts) ELSE None,
                            IF bins THEN Some(h.bins) ELSE None)
    \/ \E minimum, maximum \in RangeInputs : SetRange(minimum, maximum)
    \/ \E text \in EditInputs : MinEditingFinished(text)
    \/ \E text \in EditInputs : MaxEditingFinished(text)
    \/ AutoscaleButtonClicked
    \/ \E index \in 0..(Len(AutoscaleModes) - 1) : AutoscaleModeActivated(index)
    \/ \E h \in HistogramInputs, mode \in UnsupportedModes : AutoLevelCalled(h, mode)

SpecRange == Init /\ [][NextRange]_vars

\* The gradient channel.
NextGradient ==
    \/ \E gradient \in GradientInputs : SetCurrentGradient(gradient)
    \/ \E index \in 0..(Len(items) - 1) : GradientActivated(index)

SpecGradient == Init /\ [][NextGradient]_vars

\* The engine alone: the dialog as constructed and a call of auto_level about
\* to be made, on a histogram of any shape, with every mode and with a mode
\* the engine does not know.
InitEngine ==
    /\ histogram = None
    /\ autoscaleEnabled = FALSE
    /\ items = [i \in 1..Len(Gradients) |->
                   [text |-> capitalize(Gradients[i].name), data |-> Gradients[i].gradient]]
    /\ gradientIndex = 0
    /\ normalizationIndex = 0
    /\ minText = EmptyText
    /\ maxText = EmptyText
    /\ modeIndex = 0
    /\ sigRangeChanged = <<>>
    /\ sigCurrentGradientChanged = <<>>
    /\ sigCurrentNormalizationChanged = <<>>
    /\ _currentMode = ButtonConstructed.currentMode
    /\ checkedAction = MenuModes[1]
    /\ sigModeChanged = ButtonConstructed.emitted
    /\ \E h \in EngineHistograms,
          mode \in {AutoscaleModes[i] : i \in 1..Len(AutoscaleModes)} \cup {"bogus"} :
           op = [name |-> "call auto_level", args |-> <<h, mode>>,
                 raised |-> "", returned |-> <<>>]

NextEngine ==
    /\ op.name = "call auto_level"
    /\ AutoLevelCalled(op.args[1], op.args[2])

SpecEngine == InitEngine /\ [][NextEngine]_vars

\* The range fields: finished edits, setRange and getRange.
NextFields ==
    \/ \E text \in EditInputs : MinEditingFinished(text)
    \/ \E text \in EditInputs : MaxEditingFinished(text)
    \/ \E minimum, maximum \in RangeInputs : SetRange(minimum, maximum)
    \/ GetRangeCalled

SpecFields == Init /\ [][NextFields]_vars

\* The two selectors: the gradient and the normalization.
NextSelectors ==
    \/ \E normalization \in NormalizationInputs : setCurrentNormalization(normalization)
    \/ \E index \in 0..(Len(Normalizations) - 1) : NormalizationActivated(index)
    \/ \E gradient \in SmallGradientInputs : SetCurrentGradient(gradient)
    \/ \E index \in 0..(Len(items) - 1) : GradientActivated(index)

SpecSelectors == Init /\ [][NextSelectors]_vars

\* The reset mode: the menu of the ResetLevelsButton next to the data, the
\* range, the reset button and the reset-mode combo box of the dialog.
NextMode ==
    \/ \E i \in 1..Len(MenuModes) : MenuActionTriggered(MenuModes[i])
    \/ \E h \in SmallHistogramInputs, counts, bins \in BOOLEAN :
           setDataHistogram(IF counts THEN Some(h.counts) ELSE None,
                            IF bins THEN Some(h.bins) ELSE None)
    \/ \E minimum, maximum \in SmallRangeInputs : SetRange(minimum, maximum)
    \/ AutoscaleButtonClicked
    \/ \E index \in 0..(Len(AutoscaleModes) - 1) : AutoscaleModeActivated(index)

SpecMode == Init /\ [][NextMode]_vars

(***************************************************************************)
(* Properties                                                              *)
(***************************************************************************)

\* getRange() in the current state and in the next state of a step
Range == getRange(RangeState)

RangeAfter == getRange([minText |-> minText', maxText |-> maxText', emitted |-> <<>>])

\* the arguments of the last setRange call, ordered
OrderedPair(args) ==
    IF args[2] < args[1] THEN <<args[2], args[1]>> ELSE <<args[1], args[2]>>

ResetOperations == {"autoscaleButtonClicked", "autoscaleModeActivated"}

C2_StoresAndEmitsOrderedPair ==
    [][op'.name = "setRange" =>
          IF OrderedPair(op'.args) = Range
          THEN sigRangeChanged' = <<>> /\ UNCHANGED <<minText, maxText>>
          ELSE /\ RangeAfter = OrderedPair(op'.args)
               /\ sigRangeChanged' = <<OrderedPair(op'.args)>>]_vars

\* C3 as stated: the gradient list never holds more than one 'Custom' item.
C3_AtMostOneCustom == CountCustom(items) <= 1

\* the preset d matches is the item selected in the current state
MatchesSelected(d) ==
    /\ MatchingPreset(d) # 0
    /\ items[gradientIndex + 1].text = capitalize(Gradients[MatchingPreset(d)].name)

\* C4 as stated: every setCurrentGradient(d) emits gradient-changed exactly
\* once, carrying d.
C4_EmitsExactlyOnce ==
    op.name = "setCurrentGradient" => sigCurrentGradientChanged = <<op.args[1]>>

\* C4, amended: setCurrentGradient(d) emits nothing when d matches the preset
\* that is already selected, and otherwise emits gradient-changed exactly
\* once, carrying d; it never emits the previously selected gradient.
C4_EmitsOnceUnlessSelected ==
    [][op'.name = "setCurrentGradient" =>
          IF MatchesSelected(op'.args[1])
          THEN sigCurrentGradientChanged' = <<>>
          ELSE sigCurrentGradientChanged' = <<op'.args[1]>>]_vars

\* C4 witness: a preset was set while it was the selected item, with a
\* Custom item in the list, and nothing was emitted.
C4_SelectedPresetSetAgain ==
    /\ op.name = "setCurrentGradient"
    /\ MatchesSelected(op.args[1])
    /\ CountCustom(items) > 0
    /\ sigCurrentGradientChanged = <<>>

\* C5: right after setCurrentGradient(d), getCurrentGradient() equals d in
\* mode and ticks.
C5_RoundTrip ==
    op.name = "setCurrentGradient" =>
        /\ getCurrentGradient.mode = op.args[1].mode
        /\ getCurrentGradient.ticks = op.args[1].ticks

\* C5 witness: a second unmatched descriptor was set and is the current one.
C5_SecondCustomCurrent ==
    /\ op.name = "setCurrentGradient"
    /\ MatchingPreset(op.args[1]) = 0
    /\ CountCustom(items) = 2
    /\ getCurrentGradient = op.args[1]

\* C6: setCurrentGradient(d) with d equal to a preset selects that preset and
\* leaves the number of items and of Custom items as they were.
C6_PresetAddsNoEntry ==
    [][op'.name = "setCurrentGradient" /\ MatchingPreset(op'.args[1]) # 0 =>
          /\ Len(items') = Len(items)
          /\ CountCustom(items') = CountCustom(items)
          /\ items'[gradientIndex' + 1].text =
                 capitalize(Gradients[MatchingPreset(op'.args[1])].name)
          /\ items'[gradientIndex' + 1].data = Gradients[MatchingPreset(op'.args[1])].gradient
      ]_vars

\* C6 witness: a preset was selected by setCurrentGradient while a Custom
\* item was the current one.
C6_PresetSelectedOverCustom ==
    /\ op.name = "setCurrentGradient"
    /\ MatchingPreset(op.args[1]) # 0
    /\ CountCustom(items) = 1
    /\ gradientIndex > 0
    /\ sigCurrentGradientChanged = <<op.args[1]>>

\* what auto_level returns for the histogram of the current state and the
\* reset mode selected in the next state of a step
LevelAfter ==
    auto_level(histogram.value.bins, histogram.value.counts, AutoscaleModes[modeIndex' + 1])

\* C7 as stated: with a histogram set, a reset request or a reset-mode
\* selection leaves getRange() equal to the ordered result of auto_level for
\* that histogram and the mode now selected, whatever the range was before.
C7_ResetStoresEngineResult ==
    [][op'.name \in ResetOperations /\ ~histogram.none /\ LevelAfter.raised = "" =>
          RangeAfter = OrderedPair(<<LevelAfter.minimum, LevelAfter.maximum>>)]_vars

\* C8: the reset button is enabled exactly when a histogram is set, and with
\* no histogram set a reset request or a reset-mode selection leaves the
\* range fields as they were and emits no range-changed.
C8_ResetNeedsHistogram ==
    /\ [](autoscaleEnabled <=> ~histogram.none)
    /\ [][op'.name \in ResetOperations /\ histogram.none =>
             /\ UNCHANGED <<minText, maxText>>
             /\ sigRangeChanged' = <<>>
             /\ op'.raised = ""]_vars

\* C8 witness: a reset mode was selected with no histogram set, after the
\* range had been set, and the range is still there.
C8_ModeSelectedWithoutHistogram ==
    /\ op.name = "autoscaleModeActivated"
    /\ histogram.none
    /\ ~autoscaleEnabled
    /\ minText.ok /\ Range # <<One, One>>
    /\ sigRangeChanged = <<>>

\* C9: auto_level with a mode other than default, minmax and mean3std raises
\* ValueError whatever the histogram, and the call changes nothing: range
\* fields, histogram and reset mode stay and no range-changed is emitted.
C9_UnsupportedModeRaises ==
    [][op'.name = "auto_level" /\ op'.args[2] \notin {"default", "minmax", "mean3std"} =>
          /\ op'.raised = "ValueError"
          /\ op'.returned = <<>>
          /\ UNCHANGED <<minText, maxText, histogram, modeIndex>>
          /\ sigRangeChanged' = <<>>]_vars

\* C9 witness: auto_level was called with mode "bogus" on a histogram the
\* default mode handles, while a range was stored, and raised ValueError.
C9_BogusModeRaised ==
    /\ op.name = "auto_level"
    /\ op.args[2] = "bogus"
    /\ _default_auto_level(op.args[1].bins, op.args[1].counts).raised = ""
    /\ op.raised = "ValueError"
    /\ minText.ok /\ maxText.ok

\* a histogram with no bin, one bin, or no count at all
Degenerate(hist) ==
    \/ Len(hist.bins) < 2
    \/ SumUpTo(hist.counts, Len(hist.counts)) = 0

\* C10 as stated: on an empty or degenerate histogram a reset never ends in
\* an exception, leaves the range fields as they were and emits no
\* range-changed.
C10_DegenerateResetIsNoOp ==
    [][op'.name \in ResetOperations /\ ~histogram.none /\ Degenerate(histogram.value) =>
          /\ op'.raised = ""
          /\ UNCHANGED <<minText, maxText>>
          /\ sigRangeChanged' = <<>>]_vars

\* the histogram and the mode of the last auto_level call
CalledHistogram == op.args[1]

CalledMode == op.args[2]

\* strictly increasing edges, at least two bins, a positive total count
WellFormed(hist) ==
    /\ Len(hist.bins) >= 2
    /\ \A i \in 1..(Len(hist.bins) - 1) : hist.bins[i] < hist.bins[i + 1]
    /\ SumUpTo(hist.counts, Len(hist.counts)) > 0

\* C11 as stated: for each of the modes 'default', 'minmax' and 'mean3std'
\* and every histogram with strictly increasing edges, at least two bins and
\* a positive total count, auto_level returns a pair (lo, hi) with lo <= hi.
C11_LevelOrdered ==
    (/\ op.name = "auto_level"
     /\ \E i \in 1..Len(AutoscaleModes) : CalledMode = AutoscaleModes[i]
     /\ WellFormed(CalledHistogram))
        => op.raised = "" /\ op.returned[1] <= op.returned[2]

\* C12: for every histogram with at least two edges, whatever its counts,
\* the 'minmax' mode returns the first edge and the last edge plus the width
\* of the last bin.
C12_MinmaxAddsLastBin ==
    (/\ op.name = "auto_level"
     /\ CalledMode = "minmax"
     /\ Len(CalledHistogram.bins) >= 2)
        => LET hist_x == CalledHistogram.bins
               n == Len(hist_x)
           IN  /\ op.raised = ""
               /\ op.returned = <<hist_x[1], hist_x[n] + (hist_x[n] - hist_x[n - 1])>>

\* C12 witness: the edges 0, 1, 2, 3 with no count at all gave (0, 4).
C12_FourNotThree ==
    /\ op.name = "auto_level"
    /\ CalledMode = "minmax"
    /\ CalledHistogram = [counts |-> <<0, 0, 0, 0>>, bins |-> <<0, 1000, 2000, 3000>>]
    /\ op.returned = <<0, 4000>>

\* C13: for every histogram with a positive total count and at least two
\* strictly increasing edges, the 'mean3std' mode returns two bounds that
\* both lie within the interval the 'minmax' mode returns for it.
C13_Mean3stdWithinMinmax ==
    (/\ op.name = "auto_level"
     /\ CalledMode = "mean3std"
     /\ WellFormed(CalledHistogram))
        => LET mm == _minmax_auto_level(CalledHistogram.bins, CalledHistogram.counts)
           IN  /\ op.raised = ""
               /\ mm.raised = ""
               /\ \A i \in 1..2 : mm.minimum <= op.returned[i] /\ op.returned[i] <= mm.maximum

\* C13 witness: mean - 3 std lay below and mean + 3 std above the 'minmax'
\* interval, and the call returned that interval.
C13_BothBoundsClipped ==
    /\ op.name = "auto_level"
    /\ CalledMode = "mean3std"
    /\ WellFormed(CalledHistogram)
    /\ LET ms == weighted_average_std(CalledHistogram.bins, CalledHistogram.counts)
           mm == _minmax_auto_level(CalledHistogram.bins, CalledHistogram.counts)
       IN  /\ ms.minimum - 3 * ms.maximum < mm.minimum
           /\ ms.minimum + 3 * ms.maximum > mm.maximum
           /\ op.returned = <<mm.minimum, mm.maximum>>

\* the ordered arguments of a setRange call as the range fields hold them
Written(args) ==
    <<RoundSignificant(OrderedPair(args)[1]), RoundSignificant(OrderedPair(args)[2])>>

SecondCall == op.name = "setRange" /\ op'.args = op.args

C17_NormalizationRoundTrip ==
    [][op'.name = "setCurrentNormalization"
          => LET n == op'.args[1]
             IN  IF n \in {Normalizations[i] : i \in 1..Len(Normalizations)}
                 THEN /\ op'.raised = ""
                      /\ Normalizations[normalizationIndex' + 1] = n
                      /\ (n # getCurrentNormalization
                             => sigCurrentNormalizationChanged' = <<n>>)
                 ELSE /\ op'.raised # ""
                      /\ UNCHANGED normalizationIndex
                      /\ sigCurrentNormalizationChanged' = <<>>]_vars

\* C17 witness: setCurrentNormalization('arcsinh') selected it and emitted it
\* once.
C17_ArcsinhSelected ==
    /\ op.name = "setCurrentNormalization"
    /\ op.args = <<"arcsinh">>
    /\ getCurrentNormalization = "arcsinh"
    /\ sigCurrentNormalizationChanged = <<"arcsinh">>

\* C18: setCurrentGradient and setCurrentNormalization never change the
\* stored range or the data histogram and never emit range-changed; setRange,
\* the Reset button and a change of reset mode never change the gradient
\* selection, the gradient list or the normalization and never emit
\* gradient-changed or normalization-changed.
C18_ChannelsIndependent ==
    [][/\ op'.name \in {"setCurrentGradient", "setCurrentNormalization"}
             => /\ UNCHANGED <<minText, maxText, histogram>>
                /\ sigRangeChanged' = <<>>
       /\ op'.name \in {"setRange"} \cup ResetOperations
             => /\ UNCHANGED <<items, gradientIndex, normalizationIndex>>
                /\ sigCurrentGradientChanged' = <<>>
                /\ sigCurrentNormalizationChanged' = <<>>]_vars

\* C18 witness: with data known and a range stored, setCurrentGradient
\* changed the gradient and emitted gradient-changed.
C18_GradientSetOverStoredRange ==
    /\ op.name = "setCurrentGradient"
    /\ sigCurrentGradientChanged # <<>>
    /\ ~histogram.none
    /\ minText.ok /\ maxText.ok

\* C19: right after construction getRange() is (1, 1), the reset mode is
\* 'default', the normalization is 'linear', the current gradient is the
\* first preset, no data histogram is known and the gradient list holds no
\* Custom entry.
C19_InitialState ==
    op.name = "__init__"
        => /\ Range = <<One, One>>
           /\ currentMode = "default"
           /\ _currentMode = "default"
           /\ getCurrentNormalization = "linear"
           /\ getCurrentGradient = Gradients[1].gradient
           /\ histogram.none
           /\ CountCustom(items) = 0

\* C19 witness: the dialog as constructed, both range fields still empty and
\* the Reset button disabled.
C19_FreshDialog ==
    /\ op.name = "__init__"
    /\ ~toDouble(minText)[2]
    /\ ~toDouble(maxText)[2]
    /\ ~autoscaleEnabled

\* the items __init__ makes of the presets, and the items of the list that
\* are not 'Custom' entries
PresetItems ==
    [i \in 1..Len(Gradients) |->
        [text |-> capitalize(Gradients[i].name), data |-> Gradients[i].gradient]]

IsPreset(item) == item.text # "Custom"

\* C20 as stated: in every reachable state the gradient list holds the
\* presets in their fixed order, none removed, reordered or renamed, and any
\* Custom entry is at index 0, in front of all presets.
C20_PresetsFixedCustomFirst ==
    /\ SelectSeq(items, IsPreset) = PresetItems
    /\ \A i \in 1..Len(items) : ~IsPreset(items[i]) => i = 1

\* the bins of hist whose cumulative count is strictly below 0.996 of the
\* total count
BelowSaturation(hist) ==
    {i \in 1..Len(hist.counts) :
        1000 * SumUpTo(hist.counts, i) < 996 * SumUpTo(hist.counts, Len(hist.counts))}

\* the strictly positive edges of hist
PositiveEdges(hist) == {v \in {hist.bins[i] : i \in 1..Len(hist.bins)} : v > 0}

\* C21: for every histogram with at least two bins the 'default' mode
\* returns, as maximum, the left edge of the last bin whose cumulative count
\* is strictly below 0.996 of the total, or half of the largest edge when
\* there is no such bin, and, as minimum, the mean of the two lowest edges,
\* raised to the smallest strictly positive edge when there is one.
C21_DefaultLevels ==
    (/\ op.name = "auto_level"
     /\ CalledMode = "default"
     /\ Len(CalledHistogram.bins) >= 2)
        => LET hist == CalledHistogram
               x == hist.bins
               below == BelowSaturation(hist)
               positive == PositiveEdges(hist)
               mean == (x[1] + x[2]) \div 2
           IN  /\ op.raised = ""
               /\ IF below = {}
                  THEN op.returned[2] = x[Len(x)] \div 2
                  ELSE \E i \in below : /\ \A j \in below : j <= i
                                        /\ op.returned[2] = x[i]
               /\ IF positive = {}
                  THEN op.returned[1] = mean
                  ELSE \E v \in positive : /\ \A u \in positive : v <= u
                                           /\ op.returned[1] = Max2(mean, v)

\* C21 witness: on the edges -4, -1, 2 with every count in the first bin no
\* bin is below saturation: the maximum is half of 2 and the minimum, the
\* mean -2.5, is raised to the positive edge 2.
C21_SaturatedAndRaised ==
    /\ op.name = "auto_level"
    /\ CalledMode = "default"
    /\ CalledHistogram = [counts |-> <<8, 0, 0>>, bins |-> <<-4000, -1000, 2000>>]
    /\ op.returned = <<2000, 1000>>

\* C22: getRange() returns 1 as minimum when the min field does not parse,
\* the returned minimum as maximum when the max field does not parse, and the
\* parsed value of each field that parses; it raises nothing in any of the
\* four combinations.
C22_GetRangeFallbacks ==
    op.name = "getRange"
        => /\ op.raised = ""
           /\ op.returned[1] = (IF minText.ok THEN minText.val ELSE One)
           /\ op.returned[2] = (IF maxText.ok THEN maxText.val ELSE op.returned[1])

\* C22 witness: getRange() was called with the min field parsing to 5 and the
\* max field still empty, and returned (5, 5).
C22_MaxFollowsMin ==
    /\ op.name = "getRange"
    /\ minText = [ok |-> TRUE, val |-> 5000]
    /\ ~maxText.ok
    /\ op.returned = <<5000, 5000>>

\* the operations that write the range fields
RangeOperations ==
    {"setRange", "minEditingFinished", "maxEditingFinished"} \cup ResetOperations

\* C23: the stored range changes only by setRange, a finished edit, the Reset
\* button or a selection of reset mode; setDataHistogram, with a histogram or
\* with None, leaves the stored range, the reset mode, the gradient and the
\* normalization unchanged and emits no notification on any channel.
C23_DataAloneChangesNothing ==
    [][/\ op'.name \notin RangeOperations => UNCHANGED <<minText, maxText>>
       /\ op'.name = "setDataHistogram"
             => /\ UNCHANGED <<minText, maxText, modeIndex, _currentMode,
                               items, gradientIndex, normalizationIndex>>
                /\ sigRangeChanged' = <<>>
                /\ sigCurrentGradientChanged' = <<>>
                /\ sigCurrentNormalizationChanged' = <<>>
                /\ sigModeChanged' = <<>>]_vars

\* C23 witness: a histogram was set on a dialog whose range fields are still
\* empty, and they stayed empty: getRange() is still (1, 1).
C23_DataSetRangeUntouched ==
    /\ op.name = "setDataHistogram"
    /\ ~histogram.none
    /\ ~minText.ok /\ ~maxText.ok
    /\ Range = <<One, One>>
    /\ sigRangeChanged = <<>>

\* the range fields as the user leaves them in the finished edit of a step
Edited ==
    IF op'.name = "minEditingFinished"
    THEN [RangeState EXCEPT !.minText = op'.args[1]]
    ELSE [RangeState EXCEPT !.maxText = op'.args[1]]

\* C24: a finished edit of the min or the max field emits range-changed
\* exactly once, carrying the pair getRange() returns afterwards, which is
\* ordered; fields left with max < min are rewritten swapped and the
\* unordered pair is never notified; the notification is made even when the
\* range is the one it was before the edit.
C24_EditEmitsOnce ==
    [][op'.name \in {"minEditingFinished", "maxEditingFinished"}
          => LET left == getRange(Edited)
             IN  /\ sigRangeChanged' = <<RangeAfter>>
                 /\ RangeAfter[1] <= RangeAfter[2]
                 /\ IF left[2] < left[1]
                    THEN /\ minText' = toString(left[2])
                         /\ maxText' = toString(left[1])
                    ELSE /\ minText' = Edited.minText
                         /\ maxText' = Edited.maxText
                         /\ RangeAfter = left]_vars

\* C24 witness: the min field was left at 5 above a max field holding 2; the
\* fields were swapped and the one notification carried (2, 5).
C24_EditSwapped ==
    /\ op.name = "minEditingFinished"
    /\ op.args[1] = [ok |-> TRUE, val |-> 5000]
    /\ Range = <<2000, 5000>>
    /\ sigRangeChanged = <<Range>>

====
